---- MODULE Spec2Model ----
(***************************************************************************)
(* Model of main.py: the Google-Drive backup script.  One run of the       *)
(* script loads config.json, opens the Drive service, ensures a dated      *)
(* folder, then archives each configured directory and dumps each          *)
(* configured database; an artifact is uploaded when its xxhash digest     *)
(* differs from the hash stored in the MySQL table tbl_backup.             *)
(*                                                                         *)
(* Every call of an external collaborator (Drive API, MySQL, mysqldump,    *)
(* shutil) is one step that either returns or raises; which one is chosen  *)
(* by the environment.                                                      *)
(***************************************************************************)
EXTENDS Integers, Sequences, FiniteSets, TLC

VARIABLES
    directories_to_backup,  \* config['directories']: sequence of [name, path]
    database_names,         \* config['databases']: sequence of database names
    dir_fs,                 \* source directories that exist: path -> content
    db_server,              \* databases that exist on the server: name -> content
    disk,                   \* files of the working directory: file name -> bytes
    tbl_backup,             \* rows of the ledger table: set of [name, hash]
    drive,                  \* objects on Google Drive: set of [id, kind, name, parent, content]
    clock,                  \* the second last read by time.strftime, 0 before the first read
    runs,                   \* number of runs of the script started so far
    changed,                \* whether a source changed since the last run
    faults,                 \* number of external calls that have raised so far
    pc,                     \* per process: the call the run is about to make
    idx,                    \* per process: position in the list being looped over
    h,                      \* per process: local h, as a 0/1-element sequence
    prev,                   \* per process: local prev, <<>> is None
    folder_id,              \* per process: dated_folder_id
    exit_code,              \* per process: exit status of its last run
    obs,                    \* per process: what the current run did, per spec
    last                    \* per process: obs of the run before the current one

vars == <<directories_to_backup, database_names, dir_fs, db_server, disk,
          tbl_backup, drive, clock, runs, changed, faults, pc, idx, h, prev,
          folder_id, exit_code, obs, last>>

config_vars == <<directories_to_backup, database_names>>
source_vars == <<dir_fs, db_server, changed>>

----------------------------------------------------------------------------
(* Bounds of the model *)

MaxRuns == 2          \* runs of the script, one after the other
NumContents == 2      \* distinct contents a source can have
NumDigests == 2       \* distinct values of the digest
MaxFaults == 1        \* external calls that raise, over all runs

(* Processes able to execute the script; Spec runs it in process 1 only. *)
Procs == {1, 2}
SeqProcs == {1}

----------------------------------------------------------------------------
(* Configuration *)

DRIVE_FOLDER_ID == 0

DirConfigs == { << [name |-> "site", path |-> <<"var", "www">>] >> }
DbConfigs == { << "shop", "blog" >> }

NDirs == Len(directories_to_backup)
NDbs == Len(database_names)
NSpecs == NDirs + NDbs
SpecIds == 1 .. NSpecs
DirIds == 1 .. NDirs
DbIds == (NDirs + 1) .. NSpecs

IsDir(k) == k \in DirIds
directory(k) == directories_to_backup[k]
db(k) == database_names[k - NDirs]

basename(path) == IF Len(path) = 0 THEN "" ELSE path[Len(path)]

logical_name(k) ==
    IF IsDir(k) THEN directory(k).name \o "_" \o basename(directory(k).path)
    ELSE db(k)

zip_name(k) == logical_name(k) \o ".zip"
dump_file(k) == db(k) \o ".sql"
local_file(k) == IF IsDir(k) THEN zip_name(k) ELSE dump_file(k)

----------------------------------------------------------------------------
(* Pure helpers *)

RECURSIVE SumBytes(_)
SumBytes(bytes) ==
    IF bytes = <<>> THEN 0 ELSE Head(bytes) + SumBytes(Tail(bytes))

(* xxh64 over the chunks of the file: a deterministic, non-injective
   function of the bytes alone. *)
compute_hash(bytes) == SumBytes(bytes) % NumDigests

(* The bytes a producer writes for a source of content c, and what is left
   of them when the producer dies half way. *)
Artifact(c) == << c >>
Truncated == << >>

Remove(f, key) == [x \in (DOMAIN f) \ {key} |-> f[x]]
Put(f, key, val) == [x \in (DOMAIN f) \cup {key} |-> IF x = key THEN val ELSE f[x]]

(* SELECT hash FROM tbl_backup WHERE name=%s; fetchone; row[0] if row else None *)
get_previous_hash(name) ==
    LET rows == {r \in tbl_backup : r.name = name}
    IN  IF rows = {} THEN {<<>>} ELSE {<< r.hash >> : r \in rows}

(* The table is created outside main.py; its column `name` is the primary
   key, which is what makes ON DUPLICATE KEY fire for a name that is stored. *)
name_is_primary_key == TRUE

(* A slip of the statement: a plain INSERT into a table without the key. *)
insert_on_duplicate_key_update_InsertOnly(t, name, new_hash) ==
    t \cup {[name |-> name, hash |-> new_hash]}

(* INSERT INTO tbl_backup(name, hash) VALUES(%s, %s)
   ON DUPLICATE KEY UPDATE hash=VALUES(hash), applied to the rows t *)
insert_on_duplicate_key_update(t, name, new_hash) ==
    IF name_is_primary_key
    THEN {r \in t : r.name # name} \cup {[name |-> name, hash |-> new_hash]}
    ELSE t \cup {[name |-> name, hash |-> new_hash]}

update_hash(name, new_hash) ==
    insert_on_duplicate_key_update(tbl_backup, name, new_hash)

strftime(t) == ToString(t)

NewId == 1 + Cardinality(drive)

Folders(name, parent_id) ==
    {o \in drive : o.kind = "folder" /\ o.name = name /\ o.parent = parent_id}

Files(filename, parent_id) ==
    {o \in drive : o.name = filename /\ o.parent = parent_id}

(* A slip of get_or_create_drive_folder_by_name: the listing is skipped and
   every call creates a folder. *)
get_or_create_drive_folder_by_name_AlwaysCreate(name, parent_id, id) ==
    /\ id = NewId
    /\ drive' = drive \cup {[id |-> NewId, kind |-> "folder", name |-> name,
                             parent |-> parent_id, content |-> <<>>]}

(* The id returned and the Drive contents after the call. *)
get_or_create_drive_folder_by_name(name, parent_id, id) ==
    IF Folders(name, parent_id) # {}
    THEN /\ id \in {o.id : o \in Folders(name, parent_id)}
         /\ drive' = drive
    ELSE /\ id = NewId
         /\ drive' = drive \cup {[id |-> NewId, kind |-> "folder", name |-> name,
                                  parent |-> parent_id, content |-> <<>>]}

(* A slip of upload_to_drive: the listing is skipped and every call creates. *)
upload_to_drive_AlwaysCreate(filename, bytes, parent_id) ==
    drive' = drive \cup {[id |-> NewId, kind |-> "file", name |-> filename,
                          parent |-> parent_id, content |-> bytes]}

(* Another slip: the file goes to the configured root folder, not to the
   folder whose id the caller passed. *)
upload_to_drive_IntoRoot(filename, bytes, parent_id) ==
    IF Files(filename, DRIVE_FOLDER_ID) # {}
    THEN \E o \in Files(filename, DRIVE_FOLDER_ID) :
            drive' = (drive \ {o}) \cup {[o EXCEPT !.content = bytes]}
    ELSE drive' = drive \cup {[id |-> NewId, kind |-> "file", name |-> filename,
                               parent |-> DRIVE_FOLDER_ID, content |-> bytes]}

(* files().list(q="name=... and '<folder>' in parents and trashed=false");
   files[0] is updated when the listing is not empty, else a file is created. *)
upload_to_drive(filename, bytes, parent_id) ==
    IF Files(filename, parent_id) # {}
    THEN \E o \in Files(filename, parent_id) :
            drive' = (drive \ {o}) \cup {[o EXCEPT !.content = bytes]}
    ELSE drive' = drive \cup {[id |-> NewId, kind |-> "file", name |-> filename,
                               parent |-> parent_id, content |-> bytes]}

----------------------------------------------------------------------------
(* Control-flow decisions of backup_directories / backup_databases / main *)

(* Slips of the comparison: every artifact counts as changed; none does;
   a missing ledger record counts as unchanged. *)
Changed_Always(hv, pv) == TRUE
Changed_Never(hv, pv) == FALSE
Changed_UnlessAbsent(hv, pv) == pv # <<>> /\ << hv >> # pv

(* if h != prev *)
Changed(hv, pv) == << hv >> # pv

(* Slips of the step order: the ledger is written before the upload; a
   ledger that cannot be read counts as "changed". *)
AfterGetPreviousHash_WriteFirst(ok, hv, pv) ==
    IF ~ok THEN "except"
    ELSE IF << hv >> # pv THEN "update_hash" ELSE "remove"
AfterGetPreviousHash_AssumeChanged(ok, hv, pv) ==
    IF ~ok \/ << hv >> # pv THEN "upload_to_drive" ELSE "remove"

(* What follows each call, by whether it returned (ok) or raised. *)
AfterGetPreviousHash(ok, hv, pv) ==
    IF ~ok THEN "except"
    ELSE IF Changed(hv, pv) THEN "upload_to_drive" ELSE "remove"

(* Slip: the exception of a failed upload is swallowed. *)
AfterUpload_IgnoreFailure(ok) == "update_hash"

AfterUpload(ok) == IF ok THEN "update_hash" ELSE "except"

AfterUpdateHash(ok) == IF ok THEN "remove" ELSE "except"

AfterMakeArchive(ok) == IF ok THEN "compute_hash" ELSE "except"

(* subprocess.run(check=True): a non-zero exit raises CalledProcessError,
   which the loop catches; any other exception leaves the loop. *)
(* A slip of the dump loop: the except clause is missing, so a non-zero exit
   of mysqldump leaves the loop like any other exception. *)
AfterDump_Abort(result) == IF result = "ok" THEN "compute_hash" ELSE "except"

AfterDump(result) ==
    CASE result = "ok" -> "compute_hash"
      [] result = "CalledProcessError" -> "continue"
      [] OTHER -> "except"

(* The exit status of the interpreter: an exception raised while the module
   is imported is not caught; main() catches every exception and returns. *)
ExitStatus(where) == IF where = "import" THEN 1 ELSE 0

(* The loop a spec belongs to. *)
LoopHead(k) == IF IsDir(k) THEN "backup_directories" ELSE "backup_databases"

----------------------------------------------------------------------------
(* What a run did, per spec: how each call ended ("none" when it was not
   made) and the line the run logged for the spec. *)

FreshObs(n) ==
    [ run          |-> n,
      producer     |-> [k \in SpecIds |-> "none"],
      fp           |-> [k \in SpecIds |-> <<>>],
      ledger_read  |-> [k \in SpecIds |-> "none"],
      upload       |-> [k \in SpecIds |-> "none"],
      ledger_write |-> [k \in SpecIds |-> "none"],
      outcome      |-> [k \in SpecIds |-> "Pending"],
      ledger_start |-> tbl_backup,
      raised       |-> "" ]

(* What the next run's claims need of the run before it. *)
Snapshot(o) == [run |-> o.run, outcome |-> o.outcome, fp |-> o.fp,
                upload |-> o.upload, ledger_write |-> o.ledger_write]

Result(ok) == IF ok THEN "ok" ELSE "failed"

Init ==
    /\ directories_to_backup \in DirConfigs
    /\ database_names \in DbConfigs
    /\ dir_fs = [d \in {directories_to_backup[k].path : k \in DirIds} |-> 0]
    /\ db_server = [d \in {database_names[k] : k \in 1 .. NDbs} |-> 0]
    /\ disk = << >>
    /\ tbl_backup = {}
    /\ drive = {}
    /\ clock = 0
    /\ runs = 0
    /\ changed = FALSE
    /\ faults = 0
    /\ pc = [p \in Procs |-> "idle"]
    /\ idx = [p \in Procs |-> 0]
    /\ h = [p \in Procs |-> <<>>]
    /\ prev = [p \in Procs |-> <<>>]
    /\ folder_id = [p \in Procs |-> DRIVE_FOLDER_ID]
    /\ exit_code = [p \in Procs |-> 0]
    /\ obs = [p \in Procs |-> FreshObs(0)]
    /\ last = [p \in Procs |-> Snapshot(FreshObs(0))]

----------------------------------------------------------------------------
(* The ways an external call can end, and the count of those that raised. *)
Returns == IF faults < MaxFaults THEN BOOLEAN ELSE {TRUE}
Fault(ok) == faults' = IF ok THEN faults ELSE faults + 1

(* The call made at a position of the run. *)
CallAt(at) ==
    CASE at = "backup_directories" -> "make_archive"
      [] at = "backup_databases" -> "mysqldump"
      [] at = "remove" -> "os.remove"
      [] OTHER -> at

(* Moving on from a call: to the next call, to the next spec of the loop
   ("continue"), or out of main() through its except clause ("except"),
   which logs the exception and returns. *)
Goto(p, target, o) ==
    CASE target = "except" ->
            /\ pc' = [pc EXCEPT ![p] = "idle"]
            /\ exit_code' = [exit_code EXCEPT ![p] = ExitStatus("main")]
            /\ idx' = idx
            /\ obs' = [obs EXCEPT ![p] =
                         [o EXCEPT !.raised = CallAt(pc[p]),
                                   !.outcome = IF idx[p] \in SpecIds
                                               THEN [@ EXCEPT ![idx[p]] = "Failed"]
                                               ELSE @]]
      [] target = "continue" ->
            /\ pc' = [pc EXCEPT ![p] = LoopHead(idx[p])]
            /\ idx' = [idx EXCEPT ![p] = @ + 1]
            /\ obs' = [obs EXCEPT ![p] = o]
            /\ UNCHANGED exit_code
      [] OTHER ->
            /\ pc' = [pc EXCEPT ![p] = target]
            /\ obs' = [obs EXCEPT ![p] = o]
            /\ UNCHANGED <<idx, exit_code>>

----------------------------------------------------------------------------
(* The script is started (python main.py). *)
StartRun(p) ==
    /\ \A q \in Procs : pc[q] = "idle"
    /\ runs < MaxRuns
    /\ runs' = runs + 1
    /\ changed' = FALSE
    /\ pc' = [pc EXCEPT ![p] = "load_config"]
    /\ idx' = [idx EXCEPT ![p] = 0]
    /\ h' = [h EXCEPT ![p] = <<>>]
    /\ prev' = [prev EXCEPT ![p] = <<>>]
    /\ last' = [last EXCEPT ![p] = Snapshot(obs[p])]
    /\ obs' = [obs EXCEPT ![p] = FreshObs(runs + 1)]
    /\ UNCHANGED <<config_vars, dir_fs, db_server, disk, tbl_backup, drive,
                   clock, faults, folder_id, exit_code>>

(* Module level: config.json is read; a failure is logged and re-raised. *)
LoadConfig(p) ==
    /\ pc[p] = "load_config"
    /\ \E ok \in Returns :
          /\ Fault(ok)
          /\ IF ok
             THEN /\ pc' = [pc EXCEPT ![p] = "get_drive_service"]
                  /\ UNCHANGED <<exit_code, obs>>
             ELSE /\ pc' = [pc EXCEPT ![p] = "idle"]
                  /\ exit_code' = [exit_code EXCEPT ![p] = ExitStatus("import")]
                  /\ obs' = [obs EXCEPT ![p].raised = "load_config"]
    /\ UNCHANGED <<config_vars, source_vars, disk, tbl_backup, drive, clock,
                   runs, idx, h, prev, folder_id, last>>

(* service = get_drive_service() *)
GetDriveService(p) ==
    /\ pc[p] = "get_drive_service"
    /\ \E ok \in Returns :
          /\ Fault(ok)
          /\ Goto(p, IF ok THEN "get_or_create_folder" ELSE "except", obs[p])
    /\ UNCHANGED <<config_vars, source_vars, disk, tbl_backup, drive, clock,
                   runs, h, prev, folder_id, last>>

(* date_str = time.strftime(...); get_or_create_drive_folder_by_name(...) *)
GetOrCreateFolder(p) ==
    /\ pc[p] = "get_or_create_folder"
    /\ \E t \in {clock, clock + 1} \ {0}, ok \in Returns :
        /\ clock' = t
        /\ Fault(ok)
        /\ \/ /\ ok
              /\ \E id \in {o.id : o \in drive} \cup {NewId} :
                    /\ get_or_create_drive_folder_by_name(
                           strftime(t), DRIVE_FOLDER_ID, id)
                    /\ folder_id' = [folder_id EXCEPT ![p] = id]
              /\ pc' = [pc EXCEPT ![p] = "backup_directories"]
              /\ idx' = [idx EXCEPT ![p] = 1]
              /\ UNCHANGED <<obs, exit_code>>
           \/ /\ ~ok
              /\ Goto(p, "except", obs[p])
              /\ UNCHANGED <<drive, folder_id>>
    /\ UNCHANGED <<config_vars, source_vars, disk, tbl_backup, runs, h, prev,
                   last>>

(* for directory in directories_to_backup: the list is exhausted *)
DirectoriesDone(p) ==
    /\ pc[p] = "backup_directories"
    /\ idx[p] \notin DirIds
    /\ pc' = [pc EXCEPT ![p] = "backup_databases"]
    /\ UNCHANGED <<config_vars, source_vars, disk, tbl_backup, drive, clock,
                   runs, faults, idx, h, prev, folder_id, exit_code, obs, last>>

(* if not os.path.isdir(directory['path']): warning; continue *)
DirectoryNotFound(p) ==
    /\ pc[p] = "backup_directories"
    /\ idx[p] \in DirIds
    /\ directory(idx[p]).path \notin DOMAIN dir_fs
    /\ Goto(p, "continue", [obs[p] EXCEPT !.producer[idx[p]] = "missing",
                                          !.outcome[idx[p]] = "SourceMissing"])
    /\ UNCHANGED <<config_vars, source_vars, disk, tbl_backup, drive, clock,
                   runs, faults, h, prev, folder_id, last>>

(* shutil.make_archive(zip_name[:-4], 'zip', directory['path']) *)
MakeArchive(p) ==
    /\ pc[p] = "backup_directories"
    /\ idx[p] \in DirIds
    /\ directory(idx[p]).path \in DOMAIN dir_fs
    /\ \E ok \in Returns :
        /\ Fault(ok)
        /\ Goto(p, AfterMakeArchive(ok),
                [obs[p] EXCEPT !.producer[idx[p]] = Result(ok)])
        /\ IF ok
           THEN disk' = Put(disk, zip_name(idx[p]),
                            Artifact(dir_fs[directory(idx[p]).path]))
           ELSE disk' \in {disk, Put(disk, zip_name(idx[p]), Truncated)}
    /\ UNCHANGED <<config_vars, source_vars, tbl_backup, drive, clock, runs,
                   h, prev, folder_id, last>>

(* for db in database_names: the list is exhausted; main logs completion *)
DatabasesDone(p) ==
    /\ pc[p] = "backup_databases"
    /\ idx[p] \notin DbIds
    /\ pc' = [pc EXCEPT ![p] = "idle"]
    /\ exit_code' = [exit_code EXCEPT ![p] = ExitStatus("")]
    /\ UNCHANGED <<config_vars, source_vars, disk, tbl_backup, drive, clock,
                   runs, faults, idx, h, prev, folder_id, obs, last>>

(* How mysqldump can end: it exits non-zero when the database does not
   exist; otherwise the environment decides. *)
DumpResults(k) ==
    IF db(k) \notin DOMAIN db_server
    THEN {"CalledProcessError"}
    ELSE IF faults < MaxFaults
         THEN {"ok", "CalledProcessError", "OSError"}
         ELSE {"ok"}

(* with open(dump_file, 'wb') as f: subprocess.run(cmd, stdout=f, check=True) *)
Dump(p) ==
    /\ pc[p] = "backup_databases"
    /\ idx[p] \in DbIds
    /\ \E result \in DumpResults(idx[p]) :
        /\ Fault(result = "ok" \/ db(idx[p]) \notin DOMAIN db_server)
        /\ Goto(p, AfterDump(result),
                [obs[p] EXCEPT !.producer[idx[p]] = Result(result = "ok"),
                               !.outcome[idx[p]] =
                                   IF AfterDump(result) = "continue"
                                   THEN "Failed" ELSE @])
        /\ CASE result = "ok" ->
                  disk' = Put(disk, dump_file(idx[p]),
                              Artifact(db_server[db(idx[p])]))
             [] result = "CalledProcessError" ->
                  disk' = Put(disk, dump_file(idx[p]), Truncated)
             [] OTHER ->
                  disk' \in {disk, Put(disk, dump_file(idx[p]), Truncated)}
    /\ UNCHANGED <<config_vars, source_vars, tbl_backup, drive, clock, runs,
                   h, prev, folder_id, last>>

(* h = compute_hash(zip_name) / compute_hash(dump_file) *)
ComputeHash(p) ==
    /\ pc[p] = "compute_hash"
    /\ IF local_file(idx[p]) \in DOMAIN disk
       THEN LET d == compute_hash(disk[local_file(idx[p])])
            IN  /\ h' = [h EXCEPT ![p] = << d >>]
                /\ Goto(p, "get_previous_hash",
                        [obs[p] EXCEPT !.fp[idx[p]] = << d >>])
       ELSE /\ Goto(p, "except", obs[p])
            /\ UNCHANGED h
    /\ UNCHANGED <<config_vars, source_vars, disk, tbl_backup, drive, clock,
                   runs, faults, prev, folder_id, last>>

(* prev = get_previous_hash(logical_name); if h != prev: ... else: ... *)
GetPreviousHash(p) ==
    /\ pc[p] = "get_previous_hash"
    /\ \E ok \in Returns :
       \E pv \in IF ok THEN get_previous_hash(logical_name(idx[p])) ELSE {prev[p]} :
        LET target == AfterGetPreviousHash(ok, h[p][1], pv)
            read == [obs[p] EXCEPT !.ledger_read[idx[p]] = Result(ok)]
        IN  /\ Fault(ok)
            /\ prev' = [prev EXCEPT ![p] = pv]
            /\ Goto(p, target,
                    IF target = "remove"
                    THEN [read EXCEPT !.outcome[idx[p]] = "Skipped"]
                    ELSE read)
    /\ UNCHANGED <<config_vars, source_vars, disk, tbl_backup, drive, clock,
                   runs, h, folder_id, last>>

(* upload_to_drive(zip_name, folder_id, service) *)
UploadToDrive(p) ==
    /\ pc[p] = "upload_to_drive"
    /\ LET k == idx[p]
       IN  \E ok \in IF local_file(k) \in DOMAIN disk THEN Returns ELSE {FALSE} :
             /\ Fault(ok \/ local_file(k) \notin DOMAIN disk)
             /\ Goto(p, AfterUpload(ok),
                     [obs[p] EXCEPT !.upload[k] = Result(ok)])
             /\ IF ok
                THEN upload_to_drive(local_file(k), disk[local_file(k)],
                                     folder_id[p])
                ELSE drive' = drive
    /\ UNCHANGED <<config_vars, source_vars, disk, tbl_backup, clock, runs,
                   h, prev, folder_id, last>>

(* update_hash(logical_name, h) *)
UpdateHash(p) ==
    /\ pc[p] = "update_hash"
    /\ LET k == idx[p]
       IN  \E ok \in Returns :
             /\ Fault(ok)
             /\ Goto(p, AfterUpdateHash(ok),
                     [obs[p] EXCEPT !.ledger_write[k] = Result(ok),
                                    !.outcome[k] = IF ok THEN "Uploaded" ELSE @])
             /\ IF ok
                THEN tbl_backup' = update_hash(logical_name(k), h[p][1])
                ELSE tbl_backup' = tbl_backup
    /\ UNCHANGED <<config_vars, source_vars, disk, drive, clock, runs, h,
                   prev, folder_id, last>>

(* os.remove(zip_name) / os.remove(dump_file) *)
RemoveFile(p) ==
    /\ pc[p] = "remove"
    /\ IF local_file(idx[p]) \in DOMAIN disk
       THEN /\ disk' = Remove(disk, local_file(idx[p]))
            /\ Goto(p, "continue", obs[p])
       ELSE /\ disk' = disk
            /\ Goto(p, "except", obs[p])
    /\ UNCHANGED <<config_vars, source_vars, tbl_backup, drive, clock, runs,
                   faults, h, prev, folder_id, last>>

(* A source after a change: an existing one is edited (it gets its next
   content) or deleted, a missing one is created. *)
Edited(src, key) ==
    IF key \in DOMAIN src
    THEN {Put(src, key, (src[key] + 1) % NumContents), Remove(src, key)}
    ELSE {Put(src, key, 0)}

(* Between runs the sources change: a directory or a database is edited,
   appears or disappears; one source per interval. *)
ChangeSource ==
    /\ \A q \in Procs : pc[q] = "idle"
    /\ runs < MaxRuns
    /\ ~changed
    /\ changed' = TRUE
    /\ \/ \E k \in DirIds :
            /\ dir_fs' \in Edited(dir_fs, directory(k).path)
            /\ dir_fs' # dir_fs
            /\ UNCHANGED db_server
       \/ \E k \in DbIds :
            /\ db_server' \in Edited(db_server, db(k))
            /\ db_server' # db_server
            /\ UNCHANGED dir_fs
    /\ UNCHANGED <<config_vars, disk, tbl_backup, drive, clock, runs, faults,
                   pc, idx, h, prev, folder_id, exit_code, obs, last>>

Run(p) ==
    \/ StartRun(p)
    \/ LoadConfig(p)
    \/ GetDriveService(p)
    \/ GetOrCreateFolder(p)
    \/ DirectoriesDone(p)
    \/ DirectoryNotFound(p)
    \/ MakeArchive(p)
    \/ DatabasesDone(p)
    \/ Dump(p)
    \/ ComputeHash(p)
    \/ GetPreviousHash(p)
    \/ UploadToDrive(p)
    \/ UpdateHash(p)
    \/ RemoveFile(p)

Next == ChangeSource \/ \E p \in SeqProcs : Run(p)

Spec == Init /\ [][Next]_vars

(* Nothing in main.py takes a lock or looks for another instance: the
   script can be started (by cron, by hand) while an earlier start is still
   running, in the same working directory. *)
StartOverlappingRun(p) ==
    /\ pc[p] = "idle"
    /\ \E q \in Procs : pc[q] # "idle"
    /\ runs < MaxRuns
    /\ runs' = runs + 1
    /\ changed' = FALSE
    /\ pc' = [pc EXCEPT ![p] = "load_config"]
    /\ idx' = [idx EXCEPT ![p] = 0]
    /\ h' = [h EXCEPT ![p] = <<>>]
    /\ prev' = [prev EXCEPT ![p] = <<>>]
    /\ last' = [last EXCEPT ![p] = Snapshot(obs[p])]
    /\ obs' = [obs EXCEPT ![p] = FreshObs(runs + 1)]
    /\ UNCHANGED <<config_vars, dir_fs, db_server, disk, tbl_backup, drive,
                   clock, faults, folder_id, exit_code>>

NextOverlapping ==
    \/ ChangeSource
    \/ \E p \in Procs : StartOverlappingRun(p) \/ Run(p)

SpecOverlapping == Init /\ [][NextOverlapping]_vars

(* config.json is taken as it is: nothing in main.py compares the entries
   of directories_to_backup and database_names with each other.  Two
   directories of the same name whose paths end in the same component are a
   configuration the script accepts. *)
SameNameDirConfigs ==
    { << [name |-> "site", path |-> <<"var", "www">>],
         [name |-> "site", path |-> <<"srv", "www">>] >> }
SameNameDbConfigs == { << "shop" >> }

InitSameNames ==
    /\ directories_to_backup \in SameNameDirConfigs
    /\ database_names \in SameNameDbConfigs
    /\ dir_fs = [d \in {directories_to_backup[k].path : k \in DirIds} |-> 0]
    /\ db_server = [d \in {database_names[k] : k \in 1 .. NDbs} |-> 0]
    /\ disk = << >>
    /\ tbl_backup = {}
    /\ drive = {}
    /\ clock = 0
    /\ runs = 0
    /\ changed = FALSE
    /\ faults = 0
    /\ pc = [p \in Procs |-> "idle"]
    /\ idx = [p \in Procs |-> 0]
    /\ h = [p \in Procs |-> <<>>]
    /\ prev = [p \in Procs |-> <<>>]
    /\ folder_id = [p \in Procs |-> DRIVE_FOLDER_ID]
    /\ exit_code = [p \in Procs |-> 0]
    /\ obs = [p \in Procs |-> FreshObs(0)]
    /\ last = [p \in Procs |-> Snapshot(FreshObs(0))]

SpecSameNames == InitSameNames /\ [][Next]_vars

----------------------------------------------------------------------------
(* Vocabulary of the properties *)

(* The hashes the ledger table t stores under a name. *)
Stored(t, name) == {r.hash : r \in {x \in t : x.name = name}}

(* The run of p has ended (the process has exited). *)
Ended(p) == pc[p] = "idle" /\ obs[p].run >= 1

(* Spec k of the run o is synchronised: it ended Uploaded or Skipped. *)
Synced(o, k) == o.outcome[k] \in {"Uploaded", "Skipped"}

(* The step of spec k has got past the comparison h != prev in p's run. *)
Compared(p, k) ==
    /\ obs[p].ledger_read[k] = "ok"
    /\ \/ idx[p] # k
       \/ pc[p] \in {"upload_to_drive", "update_hash", "remove", "idle"}

(* The rows of the ledger that differ between two states of the table. *)
RowsChanged(t1, t2) == (t1 \ t2) \cup (t2 \ t1)

----------------------------------------------------------------------------
(* C1: the ledger hash of a logical name is written only by the step of a
   spec with that name whose upload has returned success in the same step,
   and the hash written is the digest of the artifact then on Drive; a step
   whose upload failed or was skipped leaves the ledger as it is. *)
C1_LedgerWriteOnlyAfterUpload ==
    [][ tbl_backup' # tbl_backup =>
          \E p \in Procs :
            /\ pc[p] = "update_hash"
            /\ obs[p].upload[idx[p]] = "ok"
            /\ \A r \in RowsChanged(tbl_backup, tbl_backup') :
                  r.name = logical_name(idx[p])
            /\ Stored(tbl_backup', logical_name(idx[p])) = {h[p][1]}
            /\ \E o \in drive :
                  /\ o.name = local_file(idx[p])
                  /\ o.parent = folder_id[p]
                  /\ compute_hash(o.content) = h[p][1] ]_vars

(* C1 witness: a step has uploaded its artifact and then written the ledger. *)
C1_Witness ==
    \E p \in Procs : \E k \in SpecIds :
        /\ obs[p].upload[k] = "ok"
        /\ obs[p].ledger_write[k] = "ok"
        /\ Stored(tbl_backup, logical_name(k)) = {obs[p].fp[k][1]}

(* C2: once a run has ended, whatever happened to each artifact, no .zip or
   .sql file made by the run is left in the working directory. *)
C2_NoTempFileAfterRun ==
    \A p \in Procs : Ended(p) => DOMAIN disk = {}

(* C3: when the only calls that fail in a run are producers (make_archive,
   mysqldump), every spec is still processed: none is left Pending, every
   spec whose producer did not fail ends Uploaded or Skipped, and the specs
   that ended Failed are exactly those whose producer failed. *)
C3_ProducerFailureIsolated ==
    \A p \in Procs :
        (Ended(p) /\ obs[p].raised \in {"", "make_archive", "mysqldump"}) =>
            \A k \in SpecIds :
                IF obs[p].producer[k] = "failed"
                THEN obs[p].outcome[k] = "Failed"
                ELSE obs[p].outcome[k] \in {"Uploaded", "Skipped", "SourceMissing"}

(* C4: when the upload of one artifact fails, that artifact is recorded as
   Failed and every later spec is still produced and uploaded or skipped. *)
C4_UploadFailureIsolated ==
    \A p \in Procs : \A k \in SpecIds :
        (Ended(p) /\ obs[p].upload[k] = "failed") =>
            /\ obs[p].outcome[k] = "Failed"
            /\ \A j \in SpecIds :
                  j > k => obs[p].outcome[j] \in {"Uploaded", "Skipped",
                                                  "SourceMissing", "Failed"}
                           /\ obs[p].producer[j] # "none"

(* Spec k has the same source state in p's run as in the run before it, and
   the run before synchronised it: both runs produced an artifact with the
   same fingerprint, or both found the source directory missing. *)
SameAsLastRun(p, k) ==
    \/ /\ Synced(last[p], k)
       /\ obs[p].fp[k] # <<>>
       /\ obs[p].fp[k] = last[p].fp[k]
    \/ /\ last[p].outcome[k] = "SourceMissing"
       /\ obs[p].outcome[k] = "SourceMissing"

(* C5: when a run follows a run that synchronised a spec and the spec's
   artifact has the same fingerprint in both, the second run makes no upload
   call and no ledger write for it and leaves its ledger hash as the first
   run left it; when that holds of every spec, the second run makes no
   upload call and no ledger write at all and the ledger after it equals the
   ledger after the first run. *)
C5_SecondRunIdempotent ==
    \A p \in Procs :
        obs[p].run >= 2 =>
            /\ \A k \in SpecIds :
                  (SameAsLastRun(p, k) /\ obs[p].fp[k] # <<>>) =>
                      /\ obs[p].upload[k] = "none"
                      /\ obs[p].ledger_write[k] = "none"
                      /\ Stored(tbl_backup, logical_name(k)) = {obs[p].fp[k][1]}
                      /\ Stored(obs[p].ledger_start, logical_name(k))
                            = {obs[p].fp[k][1]}
            /\ (Ended(p) /\ \A k \in SpecIds : SameAsLastRun(p, k)) =>
                      /\ \A k \in SpecIds : /\ obs[p].upload[k] = "none"
                                            /\ obs[p].ledger_write[k] = "none"
                      /\ tbl_backup = obs[p].ledger_start

(* C5 witness: a second run has ended over three artifacts that the first
   run uploaded and whose fingerprints are the same in both runs. *)
C5_Witness ==
    \E p \in Procs :
        /\ Ended(p)
        /\ obs[p].run >= 2
        /\ \A k \in SpecIds : /\ last[p].outcome[k] = "Uploaded"
                              /\ SameAsLastRun(p, k)
                              /\ obs[p].outcome[k] = "Skipped"

(* C6: a step whose fingerprint equals the hash stored for its logical name
   makes no upload call and no ledger write and leaves the stored hash as it
   is, and a step whose fingerprint differs from the stored hash calls
   upload; so of two artifacts synchronised by the run before, the one whose
   fingerprint is the same is not uploaded and the one whose fingerprint
   changed is. *)
C6_ChangeDetectionPrecise ==
    \A p \in Procs : \A k \in SpecIds :
        Compared(p, k) =>
            IF Stored(obs[p].ledger_start, logical_name(k)) = {obs[p].fp[k][1]}
            THEN /\ obs[p].upload[k] = "none"
                 /\ obs[p].ledger_write[k] = "none"
                 /\ obs[p].outcome[k] = "Skipped"
                 /\ Stored(tbl_backup, logical_name(k)) = {obs[p].fp[k][1]}
            ELSE \/ obs[p].upload[k] # "none"
                 \/ idx[p] = k /\ pc[p] = "upload_to_drive"

(* C6 witness: in a second run artifact A has the fingerprint of the first
   run and is skipped, artifact B has another fingerprint and is uploaded. *)
C6_Witness ==
    \E p \in Procs : \E a \in SpecIds : \E b \in SpecIds :
        /\ obs[p].run >= 2
        /\ Synced(last[p], a) /\ Synced(last[p], b)
        /\ Compared(p, a) /\ Compared(p, b)
        /\ obs[p].fp[a] = last[p].fp[a]
        /\ obs[p].fp[b] # last[p].fp[b]
        /\ obs[p].outcome[a] = "Skipped" /\ obs[p].upload[a] = "none"
        /\ obs[p].outcome[b] = "Uploaded" /\ obs[p].upload[b] = "ok"

(* C7: when the ledger has no record for the logical name of a produced
   artifact, reading the ledger is no error and the step calls upload; once
   the upload and the ledger write that follows it have succeeded, the
   ledger holds one record for the name, with the artifact's fingerprint. *)
C7_AbsentRecordUploads ==
    \A p \in Procs : \A k \in SpecIds :
        /\ (/\ obs[p].ledger_read[k] = "ok"
            /\ Stored(obs[p].ledger_start, logical_name(k)) = {}) =>
              /\ obs[p].outcome[k] # "Skipped"
              /\ \/ obs[p].upload[k] # "none"
                 \/ idx[p] = k /\ pc[p] = "upload_to_drive"
        /\ (obs[p].upload[k] = "ok" /\ obs[p].ledger_write[k] = "ok") =>
              Stored(tbl_backup, logical_name(k)) = {obs[p].fp[k][1]}

(* C7 witness: an artifact without a ledger record has been uploaded and the
   ledger now holds its fingerprint. *)
C7_Witness ==
    \E p \in Procs : \E k \in SpecIds :
        /\ Stored(obs[p].ledger_start, logical_name(k)) = {}
        /\ obs[p].ledger_read[k] = "ok"
        /\ obs[p].upload[k] = "ok"
        /\ obs[p].outcome[k] = "Uploaded"
        /\ Stored(tbl_backup, logical_name(k)) = {obs[p].fp[k][1]}

(* C8: when the upload of a changed artifact fails, the ledger hash of its
   logical name still has the value it had when the run started, also once
   the run has ended; and the next run, when it produces an artifact with
   the same fingerprint for that name and compares it, calls upload again. *)
C8_FailedUploadRetried ==
    \A p \in Procs : \A k \in SpecIds :
        /\ obs[p].upload[k] = "failed" =>
              /\ Stored(tbl_backup, logical_name(k))
                    = Stored(obs[p].ledger_start, logical_name(k))
              /\ obs[p].ledger_write[k] = "none"
        /\ (/\ obs[p].run >= 2
            /\ last[p].upload[k] = "failed"
            /\ obs[p].fp[k] = last[p].fp[k]
            /\ Compared(p, k)) =>
              \/ obs[p].upload[k] # "none"
              \/ idx[p] = k /\ pc[p] = "upload_to_drive"

(* C8 witness: the run after a failed upload has produced the same
   fingerprint and has called upload for it again. *)
C8_Witness ==
    \E p \in Procs : \E k \in SpecIds :
        /\ obs[p].run >= 2
        /\ last[p].upload[k] = "failed"
        /\ obs[p].fp[k] = last[p].fp[k]
        /\ obs[p].upload[k] = "ok"
        /\ Ended(p)

(* C9: when reading the previous hash fails because the ledger cannot be
   reached, the run stops at once: the artifact is neither uploaded nor
   taken as unchanged, no ledger write happens, and no later spec is
   produced or processed. *)
C9_LedgerReadFailureStopsRun ==
    \A p \in Procs : \A k \in SpecIds :
        obs[p].ledger_read[k] = "failed" =>
            /\ pc[p] = "idle"
            /\ obs[p].upload[k] = "none"
            /\ obs[p].outcome[k] \notin {"Uploaded", "Skipped"}
            /\ \A j \in SpecIds :
                  j >= k => obs[p].ledger_write[j] = "none"
            /\ \A j \in SpecIds :
                  j > k => /\ obs[p].producer[j] = "none"
                           /\ obs[p].outcome[j] = "Pending"
            /\ \A j \in SpecIds :
                  j >= k => Stored(tbl_backup, logical_name(j))
                              = Stored(obs[p].ledger_start, logical_name(j))

(* C9 witness: a run has stopped on a failed ledger read of a spec that is
   not the last one. *)
C9_Witness ==
    \E p \in Procs : \E k \in SpecIds :
        /\ obs[p].ledger_read[k] = "failed"
        /\ k < NSpecs
        /\ Ended(p)

(* C10: the exit code of a run is non-zero exactly when an artifact ended
   Failed or a fatal error (configuration, authentication, container, store)
   occurred. *)
C10_ExitCodeReportsFailure ==
    \A p \in Procs :
        Ended(p) =>
            (exit_code[p] # 0 <=>
                \/ \E k \in SpecIds : obs[p].outcome[k] = "Failed"
                \/ obs[p].raised # "")

----------------------------------------------------------------------------
(* C11: two runs that execute at the same time over the same specs never
   work on the same local temporary file: while one run holds the artifact
   of a logical name (it has produced it and has not yet removed it), no
   other run holds a file of the same path, so neither can overwrite or
   delete what the other is fingerprinting or uploading. *)
Holding(p) == pc[p] \in {"compute_hash", "get_previous_hash",
                         "upload_to_drive", "update_hash", "remove"}

C11_NoSharedTempFile ==
    \A p \in Procs : \A q \in Procs \ {p} :
        (Holding(p) /\ Holding(q)) => local_file(idx[p]) # local_file(idx[q])

----------------------------------------------------------------------------
(* C12: upload is an upsert keyed by the file name within a container.
   After any sequence of upload calls a container holds at most one object
   per file name; an upload of a name that is present replaces the content
   of that object and keeps its id; an upload of a name that is absent
   creates exactly one new object; nothing else on the Drive changes. *)
Named(d, filename, parent_id) ==
    {o \in d : o.name = filename /\ o.parent = parent_id}

OneObjectPerName(d) ==
    \A o1 \in d : \A o2 \in d :
        (o1.kind = "file" /\ o1.name = o2.name /\ o1.parent = o2.parent)
            => o1 = o2

Uploads(p) ==
    /\ pc[p] = "upload_to_drive"
    /\ obs[p].upload[idx[p]] = "none"
    /\ obs'[p].upload[idx[p]] = "ok"

C12_UploadIsUpsert ==
    [][ /\ OneObjectPerName(drive')
        /\ \A p \in Procs :
              Uploads(p) =>
                LET f == local_file(idx[p])
                    before == Named(drive, f, folder_id[p])
                    after == Named(drive', f, folder_id[p])
                IN  /\ Cardinality(after) = 1
                    /\ \A o \in after : o.content = disk[f]
                    /\ drive' \ after = drive \ before
                    /\ before # {} =>
                          {o.id : o \in after} = {o.id : o \in before}
                    /\ before = {} =>
                          \A o \in after : o.id \notin {x.id : x \in drive}
      ]_vars

(* Two runs have uploaded the same file name into the same container: the
   first call created the object, the second found it and replaced it. *)
C12_Witness ==
    \E p \in Procs : \E k \in SpecIds :
        /\ last[p].upload[k] = "ok"
        /\ obs[p].upload[k] = "ok"
        /\ Cardinality({o \in drive : o.kind = "folder"}) = 1
        /\ Cardinality(Named(drive, local_file(k), folder_id[p])) = 1

----------------------------------------------------------------------------
(* C13: get_or_create_drive_folder_by_name is idempotent.  After any number
   of calls with the same (name, parent) exactly one folder of that name
   exists under the parent, and the id a call returned is the id of that
   one folder, so every call with that name returns the same id. *)
Ensured(p) ==
    /\ obs[p].run >= 1
    /\ pc[p] \notin {"load_config", "get_drive_service", "get_or_create_folder"}
    /\ obs[p].raised \notin {"load_config", "get_drive_service",
                              "get_or_create_folder"}

C13_EnsureContainerIdempotent ==
    /\ \A o1 \in drive : \A o2 \in drive :
          (o1.kind = "folder" /\ o2.kind = "folder"
             /\ o1.name = o2.name /\ o1.parent = o2.parent) => o1 = o2
    /\ \A p \in Procs :
          Ensured(p) =>
            {o.id : o \in Folders(strftime(clock), DRIVE_FOLDER_ID)}
                = {folder_id[p]}

(* The second run asked for the name the first run had asked for (both
   within the same second) and one folder exists. *)
C13_Witness ==
    \E p \in Procs :
        /\ obs[p].run = 2
        /\ Ensured(p)
        /\ \E k \in SpecIds : last[p].outcome[k] # "Pending"
        /\ Cardinality({o \in drive : o.kind = "folder"}) = 1

----------------------------------------------------------------------------
(* C14: when the configured source of a spec (the directory path or the
   database) is absent, the step ends Skipped(source-missing) and not
   Failed: no local file is created, the ledger is neither read nor written
   and nothing is uploaded for that spec. *)
SourceAbsent(k) ==
    IF IsDir(k)
    THEN directory(k).path \notin DOMAIN dir_fs
    ELSE db(k) \notin DOMAIN db_server

C14_MissingSourceSkipped ==
    \A p \in Procs : \A k \in SpecIds :
        (SourceAbsent(k) /\ ~changed /\ obs[p].producer[k] # "none") =>
            /\ obs[p].outcome[k] = "SourceMissing"
            /\ local_file(k) \notin DOMAIN disk
            /\ obs[p].ledger_read[k] = "none"
            /\ obs[p].upload[k] = "none"
            /\ obs[p].ledger_write[k] = "none"

----------------------------------------------------------------------------
(* C15: when mysqldump exits non-zero for one database, the failure is
   recorded for that database only, and every later database of the list
   is still dumped in the same run and, when its dump succeeds, is
   fingerprinted and uploaded or skipped.  The dump is known to have exited
   non-zero when the run went on to its end without an exception, or when
   the database does not exist and no other call has failed. *)
ExitedNonZero(p, k) ==
    /\ obs[p].producer[k] = "failed"
    /\ \/ obs[p].raised = ""
       \/ db(k) \notin DOMAIN db_server /\ ~changed /\ faults = 0

C15_DumpFailureIsolated ==
    \A p \in Procs : \A k \in DbIds :
        (Ended(p) /\ ExitedNonZero(p, k)) =>
            /\ obs[p].outcome[k] = "Failed"
            /\ obs[p].raised = ""
            /\ \A j \in DbIds :
                  j > k =>
                    /\ obs[p].producer[j] \in {"ok", "failed"}
                    /\ obs[p].producer[j] = "failed" =>
                          obs[p].outcome[j] = "Failed"
                    /\ obs[p].producer[j] = "ok" =>
                          /\ obs[p].fp[j] # <<>>
                          /\ obs[p].outcome[j] \in {"Uploaded", "Skipped"}

(* The dump of one database failed and a later database was uploaded. *)
C15_Witness ==
    \E p \in Procs : \E k \in DbIds : \E j \in DbIds :
        /\ Ended(p)
        /\ j > k
        /\ ExitedNonZero(p, k)
        /\ obs[p].producer[j] = "ok"
        /\ obs[p].outcome[j] = "Uploaded"

----------------------------------------------------------------------------
(* C16: in every run the dated folder is ensured once, before any artifact
   is produced, and every upload of the run, for a directory or for a
   database, goes into that one folder: a run adds at most one folder, a
   producer has run only if the run holds the id of the folder named after
   its date, and every file the run uploaded lies in that folder. *)
DatedFolder(p) ==
    {o \in Folders(strftime(clock), DRIVE_FOLDER_ID) : o.id = folder_id[p]}

C16_OneContainerPerRun ==
    /\ Cardinality({o \in drive : o.kind = "folder"}) <= runs
    /\ \A o \in drive :
          o.kind = "file" =>
              \E f \in drive : f.kind = "folder" /\ f.id = o.parent
    /\ \A p \in Procs : \A k \in SpecIds :
          /\ obs[p].producer[k] # "none" => DatedFolder(p) # {}
          /\ obs[p].upload[k] = "ok" =>
                \E o \in drive : /\ o.kind = "file"
                                 /\ o.name = local_file(k)
                                 /\ o.parent = folder_id[p]

(* One run has uploaded a directory archive and a database dump. *)
C16_Witness ==
    \E p \in Procs : \E k \in DirIds : \E j \in DbIds :
        /\ obs[p].upload[k] = "ok"
        /\ obs[p].upload[j] = "ok"
        /\ DatedFolder(p) # {}
        /\ Cardinality({o \in drive : o.kind = "file"
                                       /\ o.parent = folder_id[p]}) >= 2

----------------------------------------------------------------------------
(* C17: the ledger keeps at most one record per logical name after any
   sequence of update_hash calls.  A call inserts the record when the name
   is absent and overwrites its hash when it is present, leaving the
   records of other names alone, and a second call with the same
   (name, hash) leaves the ledger as the first call left it. *)
C17_LedgerIsUpsert ==
    /\ \A r1 \in tbl_backup : \A r2 \in tbl_backup :
          r1.name = r2.name => r1 = r2
    /\ \A p \in Procs : \A k \in SpecIds :
          obs[p].ledger_write[k] = "ok" =>
              Stored(tbl_backup, logical_name(k)) = {obs[p].fp[k][1]}
    /\ \A k \in SpecIds : \A d \in 0 .. NumDigests - 1 :
          LET n == logical_name(k)
              once == update_hash(n, d)
          IN  /\ Stored(once, n) = {d}
              /\ {r \in once : r.name # n} = {r \in tbl_backup : r.name # n}
              /\ insert_on_duplicate_key_update(once, n, d) = once

(* A run has overwritten the hash an earlier run had stored for a name,
   next to the record of another name. *)
C17_Witness ==
    \E p \in Procs : \E k \in SpecIds :
        /\ obs[p].ledger_write[k] = "ok"
        /\ Stored(obs[p].ledger_start, logical_name(k)) # {}
        /\ Stored(obs[p].ledger_start, logical_name(k))
              # Stored(tbl_backup, logical_name(k))
        /\ Cardinality(tbl_backup) >= 2

----------------------------------------------------------------------------
(* C18: distinct configured specs never share a ledger key or a local
   artifact path: any two different entries a run has processed have
   different logical names and different local files, so no spec reads or
   overwrites the hash record or the temporary file of another spec. *)
C18_SpecsShareNothing ==
    \A p \in Procs : \A j \in SpecIds : \A k \in SpecIds :
        (j # k /\ obs[p].producer[j] # "none" /\ obs[p].producer[k] # "none")
            => /\ logical_name(j) # logical_name(k)
               /\ local_file(j) # local_file(k)

----------------------------------------------------------------------------
(* C19: when an upload succeeds and the ledger write after it fails, the
   ledger keeps the hash it had; the next run, when it produces the same
   fingerprint for that name and compares it, uploads once more; and after
   a run in which both the upload and the ledger write succeeded, the next
   run with the same fingerprint does not upload: a failed ledger write
   costs one redundant upload, not more. *)
Uploading(p, k) ==
    \/ obs[p].upload[k] # "none"
    \/ idx[p] = k /\ pc[p] = "upload_to_drive"

C19_OneRedundantUpload ==
    \A p \in Procs : \A k \in SpecIds :
        /\ (obs[p].upload[k] = "ok" /\ obs[p].ledger_write[k] = "failed") =>
              Stored(tbl_backup, logical_name(k))
                  = Stored(obs[p].ledger_start, logical_name(k))
        /\ (/\ obs[p].run >= 2
            /\ last[p].upload[k] = "ok"
            /\ last[p].ledger_write[k] = "failed"
            /\ obs[p].fp[k] = last[p].fp[k]
            /\ Compared(p, k)) => Uploading(p, k)
        /\ (/\ obs[p].run >= 2
            /\ last[p].upload[k] = "ok"
            /\ last[p].ledger_write[k] = "ok"
            /\ obs[p].fp[k] = last[p].fp[k]
            /\ Compared(p, k)) => ~Uploading(p, k)

(* The run after a failed ledger write has uploaded the same fingerprint
   again and has stored it. *)
C19_Witness ==
    \E p \in Procs : \E k \in SpecIds :
        /\ obs[p].run >= 2
        /\ last[p].upload[k] = "ok"
        /\ last[p].ledger_write[k] = "failed"
        /\ obs[p].fp[k] = last[p].fp[k]
        /\ obs[p].upload[k] = "ok"
        /\ obs[p].ledger_write[k] = "ok"
        /\ Stored(tbl_backup, logical_name(k)) = {obs[p].fp[k][1]}

====
